---- MODULE Spec2Model ----
(***************************************************************************)
(* Meeting-Bridge: peer mesh coordination (NetworkService + useAppStore)   *)
(* and the playback scheduler of AudioService.                             *)
(*                                                                         *)
(* Strings (peer ids, '' and the sender id of the translator bot) are      *)
(* sequences of character codes, so that Array.prototype.sort() can be     *)
(* modelled as the code-unit lexicographic order it is.  Times of the      *)
(* playback clock are integers in units of 1/48000 s, so that the duration *)
(* of n samples at 16 kHz is 3n and at 24 kHz is 2n.                       *)
(***************************************************************************)
EXTENDS Integers, Sequences, FiniteSets, TLC

\* ---------------------------------------------------------------- values
A == <<1>>
AB == <<1, 2>>
B == <<2>>
PeerIds == {A, AB, B}

\* '' (initial hostId), null, undefined (absent targetPeerId), 'TRANSLATOR_BOT'
EmptyStr == <<>>
NULL == <<0>>
UNDEF == <<0, 0>>
BotId == <<9>>

\* ---------------------------------------------------------------- bounds
MaxOps == 2
MaxJoins == 4
MaxAwait == 2
MaxClock == 6000
MaxVadClock == 1500
MaxBufLen == 5
MaxPcmLen == 3

\* ------------------------------------------------------- program constants
INPUT_SAMPLE_RATE == 16000
BotSampleRate == 24000
BUFFER_SIZE == 4096

\* RMS threshold 0.015, in units of 1/1000 of full scale
VAD_THRESHOLD == 15

\* ms
VAD_HANGOVER_TIME == 500

\* clock ticks per second: the unit of time is 1/48000 s
TickRate == 3 * INPUT_SAMPLE_RATE

\* jitterLatency = 0.05 s
DefaultJitter == TickRate \div 20

\* samples of a captured frame: 4096 samples at 48 kHz resampled to 16 kHz
CaptureLen == BUFFER_SIZE \div 3

VARIABLES
  room,                 \* NetworkService.room / sendAction are non-null
  netPeers,             \* NetworkService.peers, a Set in insertion order
  epoch,                \* transport: number of joins of the peer so far
  link,                 \* transport: link[p][q] = session of q that p is connected to, 0 = none
  chan,                 \* transport: chan[p][q] = events in flight from p to q
  isInitialized,
  isMicActive,
  hostId,               \* roomState.hostId
  speakerId,            \* roomState.speakerId
  peersMap,             \* roomState.peers : id -> role
  transcripts,
  onAudioChunkReceived, \* the store's listener is non-null
  isAiRunning,          \* App: the translation bridge session is running
  listenerPushes,       \* the registered listener calls geminiHost.pushAudio
  micAwait,             \* toggleMic invocations awaiting startCapture
  procRef,              \* AudioService.scriptProcessor is non-null
  captures,             \* script processors that are connected and firing
  mediaStream,          \* AudioService.mediaStream is non-null
  capStopped,           \* stopCapture has returned and startCapture was not called since
  heartbeatInterval,    \* NetworkService.heartbeatInterval is non-null
  timers,               \* interval timers of _startHeartbeat that are active
  vad,                  \* VoiceActivityDetector: isSpeaking, lastActivityTime, callback
  vadNow,               \* Date.now() in ms, as the detector reads it
  vadLog,               \* the notifications the detector's callback has received
  resampled,            \* the last call of downsampleBuffer and its outcome
  codec,                \* the last float32ToBase64 / base64ToFloat32 calls and their outcomes
  currentTime,          \* outputContext.currentTime
  nextStartTime,        \* AudioService.nextStartTime
  jitterLatency,        \* AudioService.jitterLatency
  lastStart,            \* the last source.start() of playAudioQueue
  last,                 \* the handler that ran last, and what it emitted
  ops                   \* number of operations so far; also Date.now()

netVars == <<room, netPeers, epoch, link, chan>>
aiVars == <<isAiRunning, listenerPushes>>
storeVars == <<isInitialized, isMicActive, hostId, speakerId, peersMap, transcripts, onAudioChunkReceived, aiVars>>
micVars == <<micAwait, procRef, captures, mediaStream, capStopped>>
hbVars == <<heartbeatInterval, timers>>
vadVars == <<vad, vadNow, vadLog>>
dspVars == <<vadVars, resampled, codec>>
playVars == <<currentTime, nextStartTime, jitterLatency, lastStart>>
vars == <<netVars, storeVars, micVars, hbVars, dspVars, playVars, last, ops>>

\* ------------------------------------------------------------ pure helpers
Min2(a, b) == IF a <= b THEN a ELSE b

Max2(a, b) == IF a >= b THEN a ELSE b

\* shorter strings first: the order of a numeric comparison
LexLess_ByLength(s, t) ==
  \/ Len(s) < Len(t)
  \/ Len(s) = Len(t) /\ \E k \in 1..Len(s) :
        (\A i \in 1..(k - 1) : s[i] = t[i]) /\ s[k] < t[k]

\* s < t in the order of String comparison by code units
LexLess(s, t) ==
  \E k \in 1..(Min2(Len(s), Len(t)) + 1) :
    /\ \A i \in 1..(k - 1) : s[i] = t[i]
    /\ \/ k > Len(s) /\ k <= Len(t)
       \/ k <= Len(s) /\ k <= Len(t) /\ s[k] < t[k]

RECURSIVE InsertSorted(_, _)
InsertSorted(x, s) ==
  IF s = <<>> THEN <<x>>
  ELSE IF LexLess(x, Head(s)) THEN <<x>> \o s
  ELSE <<Head(s)>> \o InsertSorted(x, Tail(s))

RECURSIVE SortIds(_)
\* allPeers.sort()
SortIds(s) == IF s = <<>> THEN <<>> ELSE InsertSorted(Head(s), SortIds(Tail(s)))

SeqToSet(s) == {s[i] : i \in 1..Len(s)}

\* Set.add / Set.delete keep insertion order
SetAdd(s, x) == IF x \in SeqToSet(s) THEN s ELSE Append(s, x)

SetDelete(s, x) == SelectSeq(s, LAMBDA y : y # x)

\* the election without its sort: the first id of the set
ElectHost_Unsorted(peerSeq) == peerSeq[1]

\* _handlePeerDiscovery: the id handed to hostChangedCallback
ElectHost(peerSeq) == SortIds(peerSeq)[1]

\* a || b on strings: '' , null and undefined are falsy
OrElse(a, b) == IF a \in {EmptyStr, NULL, UNDEF} THEN b ELSE a

\* a TranslationEvent: payload tells whether event.payload is present, and
\* the audio data is len whole float32 samples followed by pad more bytes
Event(type, signal, target, from, len, rate, ts) ==
  [type |-> type, signal |-> signal, target |-> target, from |-> from,
   len |-> len, rate |-> rate, ts |-> ts, payload |-> TRUE, pad |-> 0]

NoSent == {}

\* the record of a handler run: the handler, the peer it ran at, the event and
\* sender it was given, the broadcast / sendToPeer calls it made, whether it
\* called playAudioQueue and the listener onAudioChunkReceived, and the
\* speakerId of the peer when it started
Last(op, peer, ev, from, sent, played, pushed) ==
  [op |-> op, peer |-> peer, ev |-> ev, from |-> from, sent |-> sent,
   played |-> played, pushed |-> pushed,
   bridged |-> pushed /\ peer \in PeerIds /\ listenerPushes[peer],
   frame |-> <<>>,
   before |-> IF peer \in PeerIds THEN speakerId[peer] ELSE NULL]

NoEvent == Event("NONE", "NONE", UNDEF, EmptyStr, 0, 0, 0)

\* the peers the transport of p is connected to
Connected(p) == {q \in PeerIds : link[p][q] # 0}

\* the connected peers whose current session the connection belongs to
Reachable(p) == {q \in Connected(p) : room[q] /\ link[p][q] = epoch[q]}

\* a transport that delivers the newest event first
Enqueue_Front(c, p, targets, m) ==
  [c EXCEPT ![p] = [q \in PeerIds |->
      IF q \in targets \cap Reachable(p) THEN <<m>> \o c[p][q] ELSE c[p][q]]]

\* sendAction(event) / sendAction(event, peerId) on a channel function c
Enqueue(c, p, targets, m) ==
  [c EXCEPT ![p] = [q \in PeerIds |->
      IF q \in targets \cap Reachable(p) THEN Append(c[p][q], m) ELSE c[p][q]]]

\* networkService.broadcast(event) / sendToPeer(peerId, event) as calls made
Bcast(p, m) == IF room[p] THEN {[kind |-> "broadcast", to |-> EmptyStr, m |-> m]} ELSE {}

Ucast(p, q, m) == IF room[p] THEN {[kind |-> "unicast", to |-> q, m |-> m]} ELSE {}

BroadcastTargets(p) == IF room[p] THEN Connected(p) ELSE {}

UnicastTargets(p, q) == IF room[p] THEN Connected(p) \cap {q} ELSE {}

NoSchedule == [start |-> 0, dur |-> 0, now |-> 0, jl |-> 0, underrun |-> FALSE,
               prevStart |-> 0, prevDur |-> 0, n |-> 0]

\* no call of downsampleBuffer yet
NoResample == [buffer |-> <<>>, sourceRate |-> 0, targetRate |-> 0, called |-> FALSE,
               threw |-> FALSE, returned |-> FALSE, out |-> <<>>, den |-> 1]

\* no call of float32ToBase64 / base64ToFloat32 yet
NoCodec == [pcm |-> <<>>, base64 |-> <<>>, decoded |-> <<>>, threw |-> FALSE, step |-> "none"]

\* ------------------------------------------------------------------- Init
Init ==
  /\ room = [p \in PeerIds |-> FALSE]
  /\ netPeers = [p \in PeerIds |-> <<p>>]
  /\ epoch = [p \in PeerIds |-> 0]
  /\ link = [p \in PeerIds |-> [q \in PeerIds |-> 0]]
  /\ chan = [p \in PeerIds |-> [q \in PeerIds |-> <<>>]]
  /\ isInitialized = [p \in PeerIds |-> FALSE]
  /\ isMicActive = [p \in PeerIds |-> FALSE]
  /\ hostId = [p \in PeerIds |-> EmptyStr]
  /\ speakerId = [p \in PeerIds |-> NULL]
  /\ peersMap = [p \in PeerIds |-> <<>>]
  /\ transcripts = [p \in PeerIds |-> <<>>]
  /\ onAudioChunkReceived = [p \in PeerIds |-> FALSE]
  /\ isAiRunning = [p \in PeerIds |-> FALSE]
  /\ listenerPushes = [p \in PeerIds |-> FALSE]
  /\ micAwait = [p \in PeerIds |-> 0]
  /\ procRef = [p \in PeerIds |-> FALSE]
  /\ captures = [p \in PeerIds |-> 0]
  /\ mediaStream = [p \in PeerIds |-> FALSE]
  /\ capStopped = [p \in PeerIds |-> FALSE]
  /\ heartbeatInterval = [p \in PeerIds |-> FALSE]
  /\ timers = [p \in PeerIds |-> 0]
  /\ vad = [p \in PeerIds |-> [isSpeaking |-> FALSE, lastActivityTime |-> 0, callback |-> FALSE]]
  /\ vadNow = [p \in PeerIds |-> 0]
  /\ vadLog = [p \in PeerIds |-> <<>>]
  /\ resampled = NoResample
  /\ codec = NoCodec
  /\ currentTime = [p \in PeerIds |-> 0]
  /\ nextStartTime = [p \in PeerIds |-> 0]
  /\ jitterLatency = [p \in PeerIds |-> DefaultJitter]
  /\ lastStart = [p \in PeerIds |-> NoSchedule]
  /\ last = Last("init", EmptyStr, NoEvent, EmptyStr, NoSent, FALSE, FALSE)
  /\ ops = 0

\* ------------------------------------------------------- playback scheduler
\* buffer.duration taken at the capture rate whatever the frame declares
FrameDuration_AtWireRate(len, rate) == (len * TickRate) \div INPUT_SAMPLE_RATE

FrameDuration(len, rate) == (len * TickRate) \div rate

\* playAudioQueue catching up with the clock without the jitter latency
PlayAudioQueue_NoLatency(p, len, rate) ==
  LET now == currentTime[p]
      underrun == nextStartTime[p] < now
      cursor == IF underrun THEN now ELSE nextStartTime[p]
      dur == FrameDuration(len, rate)
  IN /\ lastStart' = [lastStart EXCEPT ![p] =
            [start |-> cursor, dur |-> dur, now |-> now, jl |-> jitterLatency[p],
             underrun |-> underrun, prevStart |-> lastStart[p].start,
             prevDur |-> lastStart[p].dur, n |-> Min2(lastStart[p].n + 1, 2)]]
     /\ nextStartTime' = [nextStartTime EXCEPT ![p] = cursor + dur]
     /\ UNCHANGED <<currentTime, jitterLatency>>

\* AudioService.playAudioQueue(audioData, sampleRate) at peer p
PlayAudioQueue(p, len, rate) ==
  LET now == currentTime[p]
      underrun == nextStartTime[p] < now
      cursor == IF underrun THEN now + jitterLatency[p] ELSE nextStartTime[p]
      dur == FrameDuration(len, rate)
  IN /\ lastStart' = [lastStart EXCEPT ![p] =
            [start |-> cursor, dur |-> dur, now |-> now, jl |-> jitterLatency[p],
             underrun |-> underrun, prevStart |-> lastStart[p].start,
             prevDur |-> lastStart[p].dur, n |-> Min2(lastStart[p].n + 1, 2)]]
     /\ nextStartTime' = [nextStartTime EXCEPT ![p] = cursor + dur]
     /\ UNCHANGED <<currentTime, jitterLatency>>

\* new Float32Array(bytes.buffer) throws RangeError unless the byte length is
\* a multiple of 4
WholeSamples(nbytes) == nbytes % 4 = 0

\* ---------------------------------------------------------- floor control
\* a GRANT_TOKEN event that names nobody
GrantEvent_NoTarget(p, target) == Event("CONTROL_SIGNAL", "GRANT_TOKEN", UNDEF, p, 0, 0, ops)

GrantEvent(p, target) == Event("CONTROL_SIGNAL", "GRANT_TOKEN", target, p, 0, 0, ops)

RequestEvent(p) == Event("CONTROL_SIGNAL", "REQUEST_TOKEN", p, p, 0, 0, ops)

ReleaseEvent(p) == Event("CONTROL_SIGNAL", "RELEASE_TOKEN", UNDEF, p, 0, 0, ops)

\* requestTalkingStick() that leaves speakerId alone at the host too
RequestSpeaker_Keep(p) == speakerId[p]

\* requestTalkingStick(): the three things it decides
RequestSpeaker(p) == IF p = hostId[p] THEN p ELSE speakerId[p]

RequestMsg(p) == IF p = hostId[p] THEN GrantEvent(p, p) ELSE RequestEvent(p)

RequestTargets(p) ==
  IF p = hostId[p] THEN BroadcastTargets(p) ELSE UnicastTargets(p, hostId[p])

\* releaseTalkingStick() that clears speakerId whoever holds the floor
ReleaseSpeaker_Always(p) == NULL

\* releaseTalkingStick()
ReleaseSpeaker(p) == IF speakerId[p] = p THEN NULL ELSE speakerId[p]

ReleaseTargets(p) == IF speakerId[p] = p THEN BroadcastTargets(p) ELSE {}

\* requestTalkingStick() whose guest branch broadcasts the request
RequestCalls_Broadcast(p) ==
  IF p = hostId[p] THEN Bcast(p, GrantEvent(p, p)) ELSE Bcast(p, RequestEvent(p))

RequestCalls(p) ==
  IF p = hostId[p] THEN Bcast(p, GrantEvent(p, p)) ELSE Ucast(p, hostId[p], RequestEvent(p))

ReleaseCalls(p) == IF speakerId[p] = p THEN Bcast(p, ReleaseEvent(p)) ELSE {}

\* REQUEST_TOKEN handled without the check myId === roomState.hostId
OnRequestToken_AnyPeer(q, m, senderId, c) ==
  LET granteeId == OrElse(m.target, senderId)
  IN /\ chan' = Enqueue(c, q, BroadcastTargets(q), GrantEvent(q, granteeId))
     /\ speakerId' = [speakerId EXCEPT ![q] = granteeId]
     /\ last' = Last("handleIncomingEvent", q, m, senderId,
                     Bcast(q, GrantEvent(q, granteeId)), FALSE, FALSE)

\* handleIncomingEvent, case CONTROL_SIGNAL / REQUEST_TOKEN
OnRequestToken(q, m, senderId, c) ==
  IF q = hostId[q]
  THEN LET granteeId == OrElse(m.target, senderId)
       IN /\ chan' = Enqueue(c, q, BroadcastTargets(q), GrantEvent(q, granteeId))
          /\ speakerId' = [speakerId EXCEPT ![q] = granteeId]
          /\ last' = Last("handleIncomingEvent", q, m, senderId,
                          Bcast(q, GrantEvent(q, granteeId)), FALSE, FALSE)
  ELSE /\ chan' = c
       /\ UNCHANGED speakerId
       /\ last' = Last("handleIncomingEvent", q, m, senderId, NoSent, FALSE, FALSE)

\* GRANT_TOKEN handled without "|| null"
OnGrantToken_RawTarget(q, m, senderId, c) ==
  /\ chan' = c
  /\ speakerId' = [speakerId EXCEPT ![q] = m.target]
  /\ last' = Last("handleIncomingEvent", q, m, senderId, NoSent, FALSE, FALSE)

\* the GRANT_TOKEN case applied only by a peer that has no speaker yet
GrantedSpeaker_IfFree(q, m) ==
  IF speakerId[q] = NULL THEN OrElse(m.target, NULL) ELSE speakerId[q]

\* the GRANT_TOKEN case: speakerId: payload.targetPeerId || null
GrantedSpeaker(q, m) == OrElse(m.target, NULL)

\* handleIncomingEvent, case CONTROL_SIGNAL / GRANT_TOKEN
OnGrantToken(q, m, senderId, c) ==
  /\ chan' = c
  /\ speakerId' = [speakerId EXCEPT ![q] = GrantedSpeaker(q, m)]
  /\ last' = Last("handleIncomingEvent", q, m, senderId, NoSent, FALSE, FALSE)

\* a RELEASE_TOKEN case that also notes the release in the transcript log
OnReleaseToken_Logged(q, m, senderId, c) ==
  /\ chan' = c
  /\ speakerId' = [speakerId EXCEPT ![q] = NULL]
  /\ transcripts' = [transcripts EXCEPT ![q] =
        Append(@, [senderId |-> senderId, timestamp |-> m.ts])]
  /\ last' = Last("handleIncomingEvent", q, m, senderId, NoSent, FALSE, FALSE)

\* handleIncomingEvent, case CONTROL_SIGNAL / RELEASE_TOKEN
OnReleaseToken(q, m, senderId, c) ==
  /\ chan' = c
  /\ speakerId' = [speakerId EXCEPT ![q] = NULL]
  /\ UNCHANGED transcripts
  /\ last' = Last("handleIncomingEvent", q, m, senderId, NoSent, FALSE, FALSE)

\* handleIncomingEvent throws: payload.data or payload.signal read from an
\* undefined payload (TypeError), or base64ToFloat32 throwing
Throws(q, m, senderId, c) ==
  /\ chan' = c
  /\ UNCHANGED <<speakerId, transcripts, playVars>>
  /\ last' = Last("handleIncomingEvent throws", q, m, senderId, NoSent, FALSE, FALSE)

\* the AUDIO_CHUNK case reaches a throw: the sender is another peer and the
\* payload is absent or its data is no whole number of float32 samples
AudioChunkThrows(q, m, senderId) ==
  senderId # q /\ (~m.payload \/ ~WholeSamples(4 * m.len + m.pad))

\* the AUDIO_CHUNK case hands the samples of the bot to the listener as well
PassedToListener_BotToo(q, senderId) ==
  senderId # q /\ onAudioChunkReceived[q]

\* the AUDIO_CHUNK case calls onAudioChunkReceived(float32Data, senderId)
PassedToListener(q, senderId) ==
  senderId # q /\ senderId # BotId /\ onAudioChunkReceived[q]

\* handleIncomingEvent, case AUDIO_CHUNK
OnAudioChunk(q, m, senderId, c) ==
  IF AudioChunkThrows(q, m, senderId) THEN Throws(q, m, senderId, c) ELSE
  /\ chan' = c
  /\ UNCHANGED <<speakerId, transcripts>>
  /\ IF senderId # q
     THEN PlayAudioQueue(q, m.len,
            IF m.rate # 0 THEN m.rate
            ELSE IF senderId = BotId THEN BotSampleRate ELSE INPUT_SAMPLE_RATE)
     ELSE UNCHANGED playVars
  /\ last' = Last("handleIncomingEvent", q, m, senderId, NoSent, senderId # q,
                  PassedToListener(q, senderId))

\* handleIncomingEvent, case TRANSCRIPTION
OnTranscription(q, m, senderId, c) ==
  /\ chan' = c
  /\ transcripts' = [transcripts EXCEPT ![q] =
        Append(@, [senderId |-> senderId, timestamp |-> m.ts])]
  /\ UNCHANGED <<speakerId, playVars>>
  /\ last' = Last("handleIncomingEvent", q, m, senderId, NoSent, FALSE, FALSE)

\* a handler that logs the events it has no case for
OnUnhandled_Logged(q, m, senderId, c) ==
  /\ chan' = c
  /\ transcripts' = [transcripts EXCEPT ![q] =
        Append(@, [senderId |-> senderId, timestamp |-> m.ts])]
  /\ UNCHANGED <<speakerId, playVars>>
  /\ last' = Last("handleIncomingEvent", q, m, senderId, NoSent, FALSE, FALSE)

\* handleIncomingEvent: no case of the switch, and no if of the
\* CONTROL_SIGNAL case, matches the event
OnUnhandled(q, m, senderId, c) ==
  /\ chan' = c
  /\ UNCHANGED <<speakerId, transcripts, playVars>>
  /\ last' = Last("handleIncomingEvent", q, m, senderId, NoSent, FALSE, FALSE)

\* handleIncomingEvent(event, senderId) at peer q; c is the channel state
\* the handler starts from
HandleIncomingEvent(q, m, senderId, c) ==
  IF m.type = "AUDIO_CHUNK" THEN OnAudioChunk(q, m, senderId, c)
  ELSE IF m.type = "CONTROL_SIGNAL" /\ ~m.payload THEN Throws(q, m, senderId, c)
  ELSE IF m.type = "CONTROL_SIGNAL" /\ m.signal = "REQUEST_TOKEN"
    THEN OnRequestToken(q, m, senderId, c) /\ UNCHANGED <<transcripts, playVars>>
  ELSE IF m.type = "CONTROL_SIGNAL" /\ m.signal = "GRANT_TOKEN"
    THEN OnGrantToken(q, m, senderId, c) /\ UNCHANGED <<transcripts, playVars>>
  ELSE IF m.type = "CONTROL_SIGNAL" /\ m.signal = "RELEASE_TOKEN"
    THEN OnReleaseToken(q, m, senderId, c) /\ UNCHANGED playVars
  ELSE IF m.type = "TRANSCRIPTION" THEN OnTranscription(q, m, senderId, c)
  ELSE OnUnhandled(q, m, senderId, c)

\* ------------------------------------------------------------ peer presence
MapPut(f, k, v) == [x \in (DOMAIN f) \cup {k} |-> IF x = k THEN v ELSE f[x]]

MapPutIfAbsent(f, k, v) == IF k \in DOMAIN f THEN f ELSE MapPut(f, k, v)

MapDelete(f, k) == [x \in (DOMAIN f) \ {k} |-> f[x]]

\* room.leave(): the events in flight from and to p are lost
Cleared(p) ==
  [x \in PeerIds |-> [y \in PeerIds |-> IF x = p \/ y = p THEN <<>> ELSE chan[x][y]]]

\* leaveRoom keeping its heartbeat timer
ClearedTimers_Kept(p) == timers[p]

\* leaveRoom: clearInterval(this.heartbeatInterval) if it is set
ClearedTimers(p) == IF heartbeatInterval[p] THEN timers[p] - 1 ELSE timers[p]

\* useAppStore.initialize(roomId, userName), networkService.joinRoom succeeding
Initialize(p) ==
  /\ epoch[A] + epoch[AB] + epoch[B] < MaxJoins
  /\ room' = [room EXCEPT ![p] = TRUE]
  /\ epoch' = [epoch EXCEPT ![p] = @ + 1]
  /\ link' = [link EXCEPT ![p] = [q \in PeerIds |-> 0]]
  /\ chan' = IF room[p] THEN Cleared(p) ELSE chan
  /\ LET known == IF room[p] THEN <<p>> ELSE netPeers[p]
     IN /\ netPeers' = [netPeers EXCEPT ![p] = known]
        /\ hostId' = [hostId EXCEPT ![p] = ElectHost(known)]
  /\ peersMap' = [peersMap EXCEPT ![p] = MapPut(@, p, "GUEST")]
  /\ isInitialized' = [isInitialized EXCEPT ![p] = TRUE]
  /\ vad' = [vad EXCEPT ![p].callback = TRUE]
  /\ heartbeatInterval' = [heartbeatInterval EXCEPT ![p] = TRUE]
  /\ timers' = [timers EXCEPT ![p] = (IF room[p] THEN ClearedTimers(p) ELSE @) + 1]
  /\ last' = Last("initialize", p, NoEvent, EmptyStr, NoSent, FALSE, FALSE)
  /\ UNCHANGED <<isMicActive, speakerId, transcripts, onAudioChunkReceived, aiVars, micVars,
                 vadNow, vadLog, resampled, codec, playVars, ops>>

\* useAppStore.initialize(roomId, userName), networkService.joinRoom throwing:
\* joinRoom leaves the room it is in, its catch calls leaveRoom and rethrows,
\* and initialize rejects before it registers the peer itself
InitializeFail(p) ==
  /\ room' = [room EXCEPT ![p] = FALSE]
  /\ link' = [link EXCEPT ![p] = [q \in PeerIds |-> 0]]
  /\ chan' = IF room[p] THEN Cleared(p) ELSE chan
  /\ netPeers' = [netPeers EXCEPT ![p] = <<p>>]
  /\ heartbeatInterval' = [heartbeatInterval EXCEPT ![p] = FALSE]
  /\ timers' = [timers EXCEPT ![p] = ClearedTimers(p)]
  /\ vad' = [vad EXCEPT ![p].callback = TRUE]
  /\ last' = Last("initializeFail", p, NoEvent, EmptyStr, NoSent, FALSE, FALSE)
  /\ UNCHANGED <<epoch, storeVars, micVars, vadNow, vadLog, resampled, codec, playVars, ops>>

\* networkService.leaveRoom()
LeaveRoom(p) ==
  /\ room[p]
  /\ room' = [room EXCEPT ![p] = FALSE]
  /\ link' = [link EXCEPT ![p] = [q \in PeerIds |-> 0]]
  /\ chan' = Cleared(p)
  /\ netPeers' = [netPeers EXCEPT ![p] = <<p>>]
  /\ heartbeatInterval' = [heartbeatInterval EXCEPT ![p] = FALSE]
  /\ timers' = [timers EXCEPT ![p] = ClearedTimers(p)]
  /\ last' = Last("leaveRoom", p, NoEvent, EmptyStr, NoSent, FALSE, FALSE)
  /\ UNCHANGED <<epoch, storeVars, micVars, dspVars, playVars, ops>>

\* room.onPeerJoin(peerId) fires at p for q
PeerJoin(p, q) ==
  /\ p # q
  /\ room[p]
  /\ room[q]
  /\ link[p][q] = 0
  /\ link' = [link EXCEPT ![p][q] = epoch[q]]
  /\ LET known == SetAdd(netPeers[p], q)
     IN /\ netPeers' = [netPeers EXCEPT ![p] = known]
        /\ hostId' = [hostId EXCEPT ![p] = ElectHost(known)]
  /\ peersMap' = [peersMap EXCEPT ![p] = MapPutIfAbsent(@, q, "GUEST")]
  /\ last' = Last("onPeerJoin", p, NoEvent, q, NoSent, FALSE, FALSE)
  /\ UNCHANGED <<room, epoch, chan, isInitialized, isMicActive, speakerId, transcripts,
                 onAudioChunkReceived, aiVars, micVars, hbVars, dspVars, playVars, ops>>

\* a departure that takes the floor from whoever holds it
LeaveSpeaker_Revoke(p, q) == NULL

\* onPeerLeave that removes the peer and keeps speakerId
LeaveSpeaker_Keep(p, q) == speakerId[p]

\* onPeerLeave of the store: what becomes of speakerId
LeaveSpeaker(p, q) == IF speakerId[p] = q THEN NULL ELSE speakerId[p]

\* room.onPeerLeave(peerId) fires at p for q
PeerLeave(p, q) ==
  /\ p # q
  /\ room[p]
  /\ link[p][q] # 0
  /\ ~room[q] \/ link[p][q] # epoch[q]
  /\ link' = [link EXCEPT ![p][q] = 0]
  /\ LET known == SetDelete(netPeers[p], q)
     IN /\ netPeers' = [netPeers EXCEPT ![p] = known]
        /\ hostId' = [hostId EXCEPT ![p] = ElectHost(known)]
  /\ peersMap' = [peersMap EXCEPT ![p] = MapDelete(@, q)]
  /\ speakerId' = [speakerId EXCEPT ![p] = LeaveSpeaker(p, q)]
  /\ last' = Last("onPeerLeave", p, NoEvent, q, NoSent, FALSE, FALSE)
  /\ UNCHANGED <<room, epoch, chan, isInitialized, isMicActive, transcripts,
                 onAudioChunkReceived, aiVars, micVars, hbVars, dspVars, playVars, ops>>

\* ------------------------------------------------------- store operations
\* requestTalkingStick()
RequestTalkingStick(p) ==
  /\ ops < MaxOps
  /\ speakerId' = [speakerId EXCEPT ![p] = RequestSpeaker(p)]
  /\ chan' = Enqueue(chan, p, RequestTargets(p), RequestMsg(p))
  /\ last' = Last("requestTalkingStick", p, NoEvent, EmptyStr,
                  RequestCalls(p), FALSE, FALSE)
  /\ ops' = ops + 1
  /\ UNCHANGED <<room, netPeers, epoch, link, isInitialized, isMicActive, hostId, peersMap,
                 transcripts, onAudioChunkReceived, aiVars, micVars, hbVars, dspVars, playVars>>

\* releaseTalkingStick()
ReleaseTalkingStick(p) ==
  /\ ops < MaxOps
  /\ speakerId' = [speakerId EXCEPT ![p] = ReleaseSpeaker(p)]
  /\ chan' = Enqueue(chan, p, ReleaseTargets(p), ReleaseEvent(p))
  /\ last' = Last("releaseTalkingStick", p, NoEvent, EmptyStr,
                  ReleaseCalls(p), FALSE, FALSE)
  /\ ops' = ops + 1
  /\ UNCHANGED <<room, netPeers, epoch, link, isInitialized, isMicActive, hostId, peersMap,
                 transcripts, onAudioChunkReceived, aiVars, micVars, hbVars, dspVars, playVars>>

\* toggleMic() up to its await of audioService.startCapture, or its whole
\* else branch when the mic is active
ToggleMic(p) ==
  /\ ops < MaxOps
  /\ IF ~isMicActive[p]
     THEN /\ micAwait[p] < MaxAwait
          /\ micAwait' = [micAwait EXCEPT ![p] = @ + 1]
          /\ capStopped' = [capStopped EXCEPT ![p] = FALSE]
          /\ last' = Last("toggleMic", p, NoEvent, EmptyStr, NoSent, FALSE, FALSE)
          /\ UNCHANGED <<procRef, captures, mediaStream, isMicActive, speakerId, chan>>
     ELSE /\ procRef' = [procRef EXCEPT ![p] = FALSE]
          /\ captures' = [captures EXCEPT ![p] = IF procRef[p] THEN @ - 1 ELSE @]
          /\ mediaStream' = [mediaStream EXCEPT ![p] = FALSE]
          /\ capStopped' = [capStopped EXCEPT ![p] = TRUE]
          /\ isMicActive' = [isMicActive EXCEPT ![p] = FALSE]
          /\ speakerId' = [speakerId EXCEPT ![p] = ReleaseSpeaker(p)]
          /\ chan' = Enqueue(chan, p, ReleaseTargets(p), ReleaseEvent(p))
          /\ last' = Last("toggleMic", p, NoEvent, EmptyStr,
                          ReleaseCalls(p), FALSE, FALSE)
          /\ UNCHANGED micAwait
  /\ ops' = ops + 1
  /\ UNCHANGED <<room, netPeers, epoch, link, isInitialized, hostId, peersMap,
                 transcripts, onAudioChunkReceived, aiVars, hbVars, dspVars, playVars>>

\* startCapture resolves: toggleMic continues after its await
StartCaptureOk(p) ==
  /\ micAwait[p] > 0
  /\ micAwait' = [micAwait EXCEPT ![p] = @ - 1]
  /\ procRef' = [procRef EXCEPT ![p] = TRUE]
  /\ captures' = [captures EXCEPT ![p] = @ + 1]
  /\ mediaStream' = [mediaStream EXCEPT ![p] = TRUE]
  /\ isMicActive' = [isMicActive EXCEPT ![p] = TRUE]
  /\ speakerId' = [speakerId EXCEPT ![p] = RequestSpeaker(p)]
  /\ chan' = Enqueue(chan, p, RequestTargets(p), RequestMsg(p))
  /\ last' = Last("startCaptureOk", p, NoEvent, EmptyStr,
                  RequestCalls(p), FALSE, FALSE)
  /\ UNCHANGED <<room, netPeers, epoch, link, isInitialized, hostId, peersMap,
                 transcripts, onAudioChunkReceived, aiVars, capStopped, hbVars, dspVars, playVars, ops>>

\* a toggleMic that marks the microphone active before startCapture settles
StartCaptureFail_MicOn(p) ==
  /\ micAwait[p] > 0
  /\ micAwait' = [micAwait EXCEPT ![p] = @ - 1]
  /\ isMicActive' = [isMicActive EXCEPT ![p] = TRUE]
  /\ last' = Last("startCaptureFail", p, NoEvent, EmptyStr, NoSent, FALSE, FALSE)
  /\ UNCHANGED <<netVars, isInitialized, hostId, speakerId, peersMap, transcripts,
                 onAudioChunkReceived, aiVars, procRef, captures, mediaStream, capStopped,
                 hbVars, dspVars, playVars, ops>>

\* startCapture rejects (getUserMedia fails): toggleMic logs and returns
StartCaptureFail(p) ==
  /\ micAwait[p] > 0
  /\ micAwait' = [micAwait EXCEPT ![p] = @ - 1]
  /\ last' = Last("startCaptureFail", p, NoEvent, EmptyStr, NoSent, FALSE, FALSE)
  /\ UNCHANGED <<netVars, storeVars, procRef, captures, mediaStream, capStopped,
                 hbVars, dspVars, playVars, ops>>

\* audioService.startCapture(onAudioData) up to its await of getUserMedia
StartCapture(p) ==
  /\ ops < MaxOps
  /\ micAwait[p] < MaxAwait
  /\ micAwait' = [micAwait EXCEPT ![p] = @ + 1]
  /\ capStopped' = [capStopped EXCEPT ![p] = FALSE]
  /\ last' = Last("startCapture", p, NoEvent, EmptyStr, NoSent, FALSE, FALSE)
  /\ ops' = ops + 1
  /\ UNCHANGED <<netVars, storeVars, procRef, captures, mediaStream, hbVars, dspVars, playVars>>

\* getUserMedia resolves: startCapture keeps the stream, creates the script
\* processor and connects it
GetUserMediaOk(p) ==
  /\ micAwait[p] > 0
  /\ micAwait' = [micAwait EXCEPT ![p] = @ - 1]
  /\ mediaStream' = [mediaStream EXCEPT ![p] = TRUE]
  /\ procRef' = [procRef EXCEPT ![p] = TRUE]
  /\ captures' = [captures EXCEPT ![p] = @ + 1]
  /\ last' = Last("getUserMediaOk", p, NoEvent, EmptyStr, NoSent, FALSE, FALSE)
  /\ UNCHANGED <<netVars, storeVars, capStopped, hbVars, dspVars, playVars, ops>>

\* getUserMedia rejects: startCapture logs and rethrows
GetUserMediaFail(p) ==
  /\ micAwait[p] > 0
  /\ micAwait' = [micAwait EXCEPT ![p] = @ - 1]
  /\ last' = Last("getUserMediaFail", p, NoEvent, EmptyStr, NoSent, FALSE, FALSE)
  /\ UNCHANGED <<netVars, storeVars, procRef, captures, mediaStream, capStopped,
                 hbVars, dspVars, playVars, ops>>

\* audioService.stopCapture()
StopCapture(p) ==
  /\ mediaStream' = [mediaStream EXCEPT ![p] = FALSE]
  /\ procRef' = [procRef EXCEPT ![p] = FALSE]
  /\ captures' = [captures EXCEPT ![p] = IF procRef[p] THEN @ - 1 ELSE @]
  /\ capStopped' = [capStopped EXCEPT ![p] = TRUE]
  /\ last' = Last("stopCapture", p, NoEvent, EmptyStr, NoSent, FALSE, FALSE)
  /\ UNCHANGED <<netVars, storeVars, micAwait, hbVars, dspVars, playVars, ops>>

\* App: isHost, the role of the local peer in roomState.peers is HOST
IsHost(p) == p \in DOMAIN peersMap[p] /\ peersMap[p][p] = "HOST"

\* App: the host AI effect; the listener it registers pushes to the bridge
\* when isHost and isAiRunning held as the effect ran
HostListenerPushes(p, running) == IsHost(p) /\ running

\* setAudioChunkListener(cb), as the App's effect calls it on mount
SetAudioChunkListener(p) ==
  /\ ~onAudioChunkReceived[p]
  /\ onAudioChunkReceived' = [onAudioChunkReceived EXCEPT ![p] = TRUE]
  /\ listenerPushes' = [listenerPushes EXCEPT ![p] = HostListenerPushes(p, isAiRunning[p])]
  /\ last' = Last("setAudioChunkListener", p, NoEvent, EmptyStr, NoSent, FALSE, FALSE)
  /\ UNCHANGED <<netVars, isInitialized, isMicActive, hostId, speakerId, peersMap,
                 transcripts, isAiRunning, micVars, hbVars, dspVars, playVars, ops>>

\* App.toggleAiSession with an API key at hand: the session stops or starts,
\* isAiRunning flips, and the host AI effect registers its listener again
ToggleAiSession(p) ==
  /\ isAiRunning' = [isAiRunning EXCEPT ![p] = ~@]
  /\ onAudioChunkReceived' = [onAudioChunkReceived EXCEPT ![p] = TRUE]
  /\ listenerPushes' = [listenerPushes EXCEPT ![p] = HostListenerPushes(p, ~isAiRunning[p])]
  /\ last' = Last("toggleAiSession", p, NoEvent, EmptyStr, NoSent, FALSE, FALSE)
  /\ UNCHANGED <<netVars, isInitialized, isMicActive, hostId, speakerId, peersMap,
                 transcripts, micVars, hbVars, dspVars, playVars, ops>>

AudioChunkEvent(p) ==
  Event("AUDIO_CHUNK", "NONE", UNDEF, p, CaptureLen, INPUT_SAMPLE_RATE, ops)

\* the gate on the microphone instead of the floor
HoldsFloor_MicActive(p) == isMicActive[p]

\* the gate of the startCapture callback of toggleMic
HoldsFloor(p) == speakerId[p] = p

\* ------------------------------------------------- voice activity detector
RECURSIVE SumSq(_)
\* sum += data[i] * data[i]
SumSq(data) == IF data = <<>> THEN 0 ELSE Head(data) * Head(data) + SumSq(Tail(data))

\* rms > VAD_THRESHOLD, with rms = Math.sqrt(sum / data.length); an empty
\* frame has rms NaN, which compares false
IsLoud(data) ==
  /\ Len(data) > 0
  /\ SumSq(data) > VAD_THRESHOLD * VAD_THRESHOLD * Len(data)

\* a detector whose hangover ends as soon as the window is reached
VadAfter_AtWindow(v, data, now) ==
  IF IsLoud(data)
  THEN [v EXCEPT !.lastActivityTime = now, !.isSpeaking = TRUE]
  ELSE IF v.isSpeaking /\ now - v.lastActivityTime >= VAD_HANGOVER_TIME
       THEN [v EXCEPT !.isSpeaking = FALSE]
       ELSE v

\* VoiceActivityDetector.process: the detector after the frame
VadAfter(v, data, now) ==
  IF IsLoud(data)
  THEN [v EXCEPT !.lastActivityTime = now, !.isSpeaking = TRUE]
  ELSE IF v.isSpeaking /\ now - v.lastActivityTime > VAD_HANGOVER_TIME
       THEN [v EXCEPT !.isSpeaking = FALSE]
       ELSE v

\* a detector that reports every loud frame
VadEmits_PerFrame(v, data, now) ==
  IF ~v.callback THEN <<>>
  ELSE IF IsLoud(data) THEN <<TRUE>>
  ELSE IF v.isSpeaking /\ now - v.lastActivityTime > VAD_HANGOVER_TIME THEN <<FALSE>>
  ELSE <<>>

\* VoiceActivityDetector.process: the emitChange calls that reach the callback
VadEmits(v, data, now) ==
  IF ~v.callback THEN <<>>
  ELSE IF IsLoud(data) THEN (IF ~v.isSpeaking THEN <<TRUE>> ELSE <<>>)
  ELSE IF v.isSpeaking /\ now - v.lastActivityTime > VAD_HANGOVER_TIME THEN <<FALSE>>
  ELSE <<>>

\* this.vad.process(inputBuffer) at peer p
VadProcess(p, data) ==
  /\ vad' = [vad EXCEPT ![p] = VadAfter(vad[p], data, vadNow[p])]
  /\ vadLog' = [vadLog EXCEPT ![p] = @ \o VadEmits(vad[p], data, vadNow[p])]

\* a frame of silence
SilentFrame == <<0, 0>>

\* captured frames, amplitudes in units of 1/1000: silence, rms at the
\* threshold, a peak above the threshold with rms below it, and two loud frames
VadFrames == {SilentFrame, <<15, 15>>, <<20, 0>>, <<16, 16>>, <<40, 0>>}

\* scriptProcessor.onaudioprocess: the detector, then onAudioData(resampledData)
OnAudioProcess(p, data) ==
  /\ captures[p] > 0
  /\ VadProcess(p, data)
  /\ LET targets == IF HoldsFloor(p) THEN BroadcastTargets(p) ELSE {}
     IN /\ chan' = Enqueue(chan, p, targets, AudioChunkEvent(p))
        /\ last' = [Last("captureFrame", p, NoEvent, EmptyStr,
                         IF HoldsFloor(p) THEN Bcast(p, AudioChunkEvent(p)) ELSE {}, FALSE,
                         HoldsFloor(p) /\ onAudioChunkReceived[p])
                      EXCEPT !.frame = data]
  /\ UNCHANGED <<room, netPeers, epoch, link, storeVars, micVars, hbVars, vadNow,
                 resampled, codec, playVars>>

\* onaudioprocess fires with a frame of silence
CaptureFrame(p) ==
  /\ ops < MaxOps
  /\ OnAudioProcess(p, SilentFrame)
  /\ ops' = ops + 1

\* onaudioprocess fires with a frame of the microphone
VadFrame(p, data) ==
  /\ OnAudioProcess(p, data)
  /\ UNCHANGED ops

VadClockSteps == {100, 600}

\* Date.now() advances
VadClock(p, d) ==
  /\ vadNow[p] + d <= MaxVadClock
  /\ vadNow' = [vadNow EXCEPT ![p] = @ + d]
  /\ last' = Last("clock", p, NoEvent, EmptyStr, NoSent, FALSE, FALSE)
  /\ UNCHANGED <<netVars, storeVars, micVars, hbVars, vad, vadLog, resampled, codec,
                 playVars, ops>>

\* the event types a peer puts on the wire besides floor control and audio
WireTypes == {"TRANSCRIPTION", "TRANSLATION", "STATE_UPDATE", "UNKNOWN"}

\* networkService.broadcast(event) of a text or state event
BroadcastEvent(p, type) ==
  /\ ops < MaxOps
  /\ room[p]
  /\ LET m == Event(type, "NONE", UNDEF, p, 0, 0, ops)
     IN /\ chan' = Enqueue(chan, p, BroadcastTargets(p), m)
        /\ last' = Last("broadcast", p, NoEvent, EmptyStr, Bcast(p, m),
                        FALSE, FALSE)
  /\ ops' = ops + 1
  /\ UNCHANGED <<room, netPeers, epoch, link, storeVars, micVars, hbVars, dspVars, playVars>>

\* control signals of the schema, and one outside it, that no peer acts on
IgnoredSignals == {"MUTE_PEER", "KICK_PEER", "UNKNOWN"}

\* networkService.broadcast(event) of a control event with such a signal
BroadcastControl(p, signal) ==
  /\ ops < MaxOps
  /\ room[p]
  /\ LET m == Event("CONTROL_SIGNAL", signal, UNDEF, p, 0, 0, ops)
     IN /\ chan' = Enqueue(chan, p, BroadcastTargets(p), m)
        /\ last' = Last("broadcast", p, NoEvent, EmptyStr, Bcast(p, m),
                        FALSE, FALSE)
  /\ ops' = ops + 1
  /\ UNCHANGED <<room, netPeers, epoch, link, storeVars, micVars, hbVars, dspVars, playVars>>

\* events that do not follow the schema: a control event and an audio chunk
\* without payload, and an audio chunk of one sample and two more bytes
MalformedKinds == {"control, no payload", "audio, no payload", "audio, six bytes"}

MalformedEvent(p, kind) ==
  IF kind = "control, no payload"
    THEN [Event("CONTROL_SIGNAL", "NONE", UNDEF, p, 0, 0, ops) EXCEPT !.payload = FALSE]
  ELSE IF kind = "audio, no payload"
    THEN [Event("AUDIO_CHUNK", "NONE", UNDEF, p, 0, 0, ops) EXCEPT !.payload = FALSE]
  ELSE [Event("AUDIO_CHUNK", "NONE", UNDEF, p, 1, INPUT_SAMPLE_RATE, ops) EXCEPT !.pad = 2]

\* the transport of p sends data that is no well-formed event
SendMalformed(p, kind) ==
  /\ ops < MaxOps
  /\ room[p]
  /\ chan' = Enqueue(chan, p, BroadcastTargets(p), MalformedEvent(p, kind))
  /\ last' = Last("broadcast", p, NoEvent, EmptyStr, Bcast(p, MalformedEvent(p, kind)),
                  FALSE, FALSE)
  /\ ops' = ops + 1
  /\ UNCHANGED <<room, netPeers, epoch, link, storeVars, micVars, hbVars, dspVars, playVars>>

\* the heartbeat timer of _startHeartbeat fires
Heartbeat(p) ==
  /\ ops < MaxOps
  /\ timers[p] > 0
  /\ LET m == Event("CONTROL_SIGNAL", "HEARTBEAT", UNDEF, p, 0, 0, ops)
     IN /\ chan' = Enqueue(chan, p, BroadcastTargets(p), m)
        /\ last' = Last("heartbeat", p, NoEvent, EmptyStr, Bcast(p, m),
                        FALSE, FALSE)
  /\ ops' = ops + 1
  /\ UNCHANGED <<room, netPeers, epoch, link, storeVars, micVars, hbVars, dspVars, playVars>>

\* the get() listener of joinRoom: an event from p arrives at q
Receive(q, p) ==
  /\ room[q]
  /\ link[q][p] # 0
  /\ link[q][p] = epoch[p]
  /\ chan[p][q] # <<>>
  /\ HandleIncomingEvent(q, Head(chan[p][q]), p, [chan EXCEPT ![p][q] = Tail(@)])
  /\ UNCHANGED <<room, netPeers, epoch, link, isInitialized, isMicActive, hostId, peersMap,
                 onAudioChunkReceived, aiVars, micVars, hbVars, dspVars, ops>>

\* the floor-control signals and the targetPeerId values of the wire schema
\* (targetPeerId is optional)
FloorSignals == {"REQUEST_TOKEN", "GRANT_TOKEN", "RELEASE_TOKEN"}

TargetInputs == PeerIds \cup {UNDEF, EmptyStr}

\* handleIncomingEvent(event, senderId) given a floor-control event directly
HandleControl(q, sender, signal, target) ==
  /\ ops < MaxOps
  /\ room[q]
  /\ sender # q
  /\ HandleIncomingEvent(q, Event("CONTROL_SIGNAL", signal, target, sender, 0, 0, ops),
                         sender, chan)
  /\ ops' = ops + 1
  /\ UNCHANGED <<room, netPeers, epoch, link, isInitialized, isMicActive, hostId, peersMap,
                 onAudioChunkReceived, aiVars, micVars, hbVars, dspVars>>

AudioRates == {0, INPUT_SAMPLE_RATE, BotSampleRate}

\* handleIncomingEvent(event, senderId) given an AUDIO_CHUNK event directly
HandleAudio(q, sender, rate) ==
  /\ ops < MaxOps
  /\ room[q]
  /\ HandleIncomingEvent(q, Event("AUDIO_CHUNK", "NONE", UNDEF, sender, CaptureLen, rate, ops),
                         sender, chan)
  /\ ops' = ops + 1
  /\ UNCHANGED <<room, netPeers, epoch, link, isInitialized, isMicActive, hostId, peersMap,
                 onAudioChunkReceived, aiVars, micVars, hbVars, dspVars>>

BotEventTypes == {"AUDIO_CHUNK", "TRANSCRIPTION"}

\* what GeminiHostService.handleGeminiMessage hands to the broadcast callback
BotEvent(type) ==
  Event(type, "NONE", UNDEF, BotId, CaptureLen,
        IF type = "AUDIO_CHUNK" THEN BotSampleRate ELSE 0, ops)

\* the callback App.toggleAiSession gives to startLiveSession:
\* networkService.broadcast(event), then handleIncomingEvent(event, 'TRANSLATOR_BOT')
BridgeEvent(p, type) ==
  /\ ops < MaxOps
  /\ isAiRunning[p]
  /\ HandleIncomingEvent(p, BotEvent(type), BotId,
                         Enqueue(chan, p, BroadcastTargets(p), BotEvent(type)))
  /\ ops' = ops + 1
  /\ UNCHANGED <<room, netPeers, epoch, link, isInitialized, isMicActive, hostId, peersMap,
                 onAudioChunkReceived, aiVars, micVars, hbVars, dspVars>>

\* ------------------------------------------------- the playback clock
TickSteps == {1200, 3600}

\* outputContext.currentTime advances
Tick(p, d) ==
  /\ currentTime[p] + d <= MaxClock
  /\ currentTime' = [currentTime EXCEPT ![p] = @ + d]
  /\ last' = Last("tick", p, NoEvent, EmptyStr, NoSent, FALSE, FALSE)
  /\ UNCHANGED <<netVars, storeVars, micVars, hbVars, dspVars, nextStartTime, jitterLatency, lastStart, ops>>

JitterInputs == {0 - 2400, 0, 2400, 4800}

\* AudioService.setJitterLatency(seconds)
SetJitterLatency(p, seconds) ==
  /\ jitterLatency' = [jitterLatency EXCEPT ![p] = Max2(0, seconds)]
  /\ last' = Last("setJitterLatency", p, NoEvent, EmptyStr, NoSent, FALSE, FALSE)
  /\ UNCHANGED <<netVars, storeVars, micVars, hbVars, dspVars, currentTime, nextStartTime, lastStart, ops>>

FrameLens == {480, 960}

SampleRates == {INPUT_SAMPLE_RATE, BotSampleRate}

\* audioService.playAudioQueue(audioData, sampleRate) called directly
PlayCall(p, len, rate) ==
  /\ nextStartTime[p] <= MaxClock
  /\ PlayAudioQueue(p, len, rate)
  /\ last' = Last("playAudioQueue", p,
                  Event("AUDIO_CHUNK", "NONE", UNDEF, EmptyStr, len, rate, 0),
                  EmptyStr, NoSent, TRUE, FALSE)
  /\ UNCHANGED <<netVars, storeVars, micVars, hbVars, dspVars, ops>>

\* a peer's first join: the program as its UI drives it (RoomJoiner is shown
\* only while isInitialized is false)
FirstInitialize(p) == epoch[p] = 0 /\ Initialize(p)

\* the microphone button of the App, which is rendered once isInitialized holds
MicButton(p) == isInitialized[p] /\ ToggleMic(p)

\* a join that fails, as the RoomJoiner of the App can start it
JoinFails(p) == ~isInitialized[p] /\ InitializeFail(p)

\* presence only, peers leaving and joining again
NextElection ==
  \/ \E p \in PeerIds : Initialize(p)
  \/ \E p \in PeerIds : LeaveRoom(p)
  \/ \E p, q \in PeerIds : PeerJoin(p, q)
  \/ \E p, q \in PeerIds : PeerLeave(p, q)

SpecElection == Init /\ [][NextElection]_vars

\* presence and floor control
Next ==
  \/ \E p \in PeerIds : FirstInitialize(p)
  \/ \E p \in PeerIds : LeaveRoom(p)
  \/ \E p, q \in PeerIds : PeerJoin(p, q)
  \/ \E p, q \in PeerIds : PeerLeave(p, q)
  \/ \E p \in PeerIds : RequestTalkingStick(p)
  \/ \E p \in PeerIds : ReleaseTalkingStick(p)
  \/ \E p, q \in PeerIds : Receive(q, p)

Spec == Init /\ [][Next]_vars

\* the two peers of the specifications about the microphone and the wire
Pair == {A, B}

\* two peers, presence, the microphone and the floor control it drives
NextMic ==
  \/ \E p \in Pair : FirstInitialize(p)
  \/ \E p \in Pair : LeaveRoom(p)
  \/ \E p, q \in Pair : PeerJoin(p, q)
  \/ \E p, q \in Pair : PeerLeave(p, q)
  \/ \E p \in Pair : RequestTalkingStick(p)
  \/ \E p \in Pair : ToggleMic(p)
  \/ \E p \in Pair : StartCaptureOk(p)
  \/ \E p \in Pair : StartCaptureFail(p)
  \/ \E p \in Pair : SetAudioChunkListener(p)
  \/ \E p \in Pair : CaptureFrame(p)
  \/ \E p, q \in Pair : Receive(q, p)

SpecMic == Init /\ [][NextMic]_vars

\* two peers, presence, the microphone, the translation bridge and its events
NextBridge ==
  \/ \E p \in Pair : FirstInitialize(p)
  \/ \E p \in Pair : LeaveRoom(p)
  \/ \E p, q \in Pair : PeerJoin(p, q)
  \/ \E p, q \in Pair : PeerLeave(p, q)
  \/ \E p \in Pair : MicButton(p)
  \/ \E p \in Pair : StartCaptureOk(p)
  \/ \E p \in Pair : SetAudioChunkListener(p)
  \/ \E p \in Pair : ToggleAiSession(p)
  \/ \E p \in Pair : CaptureFrame(p)
  \/ \E p \in Pair, t \in BotEventTypes : BridgeEvent(p, t)
  \/ \E q \in Pair, x \in Pair \cup {BotId}, r \in AudioRates : HandleAudio(q, x, r)
  \/ \E p, q \in Pair : Receive(q, p)

SpecBridge == Init /\ [][NextBridge]_vars

\* two peers, presence and the events on the wire that are not floor control
NextWire ==
  \/ \E p \in Pair : FirstInitialize(p)
  \/ \E p \in Pair : LeaveRoom(p)
  \/ \E p, q \in Pair : PeerJoin(p, q)
  \/ \E p, q \in Pair : PeerLeave(p, q)
  \/ \E p \in Pair, t \in WireTypes : BroadcastEvent(p, t)
  \/ \E p \in Pair, g \in IgnoredSignals : BroadcastControl(p, g)
  \/ \E p \in Pair, k \in MalformedKinds : SendMalformed(p, k)
  \/ \E p \in Pair : Heartbeat(p)
  \/ \E p, q \in Pair : Receive(q, p)

SpecWire == Init /\ [][NextWire]_vars

\* the peer whose RoomState the floor-control events are applied to: it has a
\* smaller and a larger neighbour, so it is host in some states and not in others
Subject == AB

\* presence, and any floor-control event of the wire schema applied to one peer
NextHandler ==
  \/ \E p \in PeerIds : FirstInitialize(p)
  \/ \E p \in PeerIds : LeaveRoom(p)
  \/ \E p, q \in PeerIds : PeerJoin(p, q)
  \/ \E p, q \in PeerIds : PeerLeave(p, q)
  \/ \E q \in PeerIds, g \in FloorSignals, t \in TargetInputs : HandleControl(Subject, q, g, t)

SpecHandler == Init /\ [][NextHandler]_vars

\* one peer's playback scheduler under a running clock
NextPlayback ==
  \/ \E d \in TickSteps : Tick(A, d)
  \/ \E j \in JitterInputs : SetJitterLatency(A, j)
  \/ \E n \in FrameLens, r \in SampleRates : PlayCall(A, n, r)

SpecPlayback == Init /\ [][NextPlayback]_vars

\* ------------------------------------------------------- downsampleBuffer
\* sample values (any unit), and all buffers of up to MaxBufLen samples
Samples == {0 - 2, 0, 3}

Buffers == UNION {[1..n -> Samples] : n \in 0..MaxBufLen}

SourceRates == {8000, 16000, 22050, 24000, 44100, 48000}

TargetRates == {INPUT_SAMPLE_RATE, BotSampleRate}

\* buffer[k] of a Float32Array, k counted from 0, is truthy: k is inside the
\* buffer and the sample is not 0
Truthy(buffer, k) == k >= 0 /\ k < Len(buffer) /\ buffer[k + 1] # 0

\* Math.round(buffer.length / ratio) with ratio = sourceRate / targetRate
NewLength(len, sourceRate, targetRate) ==
  (2 * len * targetRate + sourceRate) \div (2 * sourceRate)

\* buffer[indexFloor] || 0
FloorSample(buffer, k) == IF Truthy(buffer, k) THEN buffer[k + 1] ELSE 0

\* the upper neighbour read as buffer[indexCeil] || 0
CeilSample_OrZero(buffer, k, val1) ==
  IF Truthy(buffer, k) THEN buffer[k + 1] ELSE 0

\* buffer[indexCeil] || val1
CeilSample(buffer, k, val1) ==
  IF Truthy(buffer, k) THEN buffer[k + 1] ELSE val1

\* result[i] times targetRate: val1 * (1 - weight) + val2 * weight with
\* originalIndex = i * ratio, weight = originalIndex - indexFloor
Interpolated(buffer, i, sourceRate, targetRate) ==
  LET indexFloor == (i * sourceRate) \div targetRate
      rem == (i * sourceRate) % targetRate
      indexCeil == IF rem = 0 THEN indexFloor ELSE indexFloor + 1
      val1 == FloorSample(buffer, indexFloor)
      val2 == CeilSample(buffer, indexCeil, val1)
  IN val1 * (targetRate - rem) + val2 * rem

\* a resampler that accepts every pair of rates
Upsampling_Accepted(sourceRate, targetRate) == FALSE

\* if (targetRate > sourceRate) throw
Upsampling(sourceRate, targetRate) == targetRate > sourceRate

\* downsampleBuffer(buffer, sourceRate, targetRate): whether it threw or
\* returned, and the samples returned as fractions out[i] / den
DownsampleBuffer(buffer, sourceRate, targetRate) ==
  LET call == [buffer |-> buffer, sourceRate |-> sourceRate, targetRate |-> targetRate,
               called |-> TRUE, threw |-> FALSE, returned |-> TRUE, out |-> buffer, den |-> 1]
  IN IF targetRate = sourceRate THEN call
     ELSE IF Upsampling(sourceRate, targetRate)
       THEN [call EXCEPT !.threw = TRUE, !.returned = FALSE, !.out = <<>>]
     ELSE [call EXCEPT
             !.out = [i \in 1..NewLength(Len(buffer), sourceRate, targetRate) |->
                        Interpolated(buffer, i - 1, sourceRate, targetRate)],
             !.den = targetRate]

\* a call of downsampleBuffer; the function keeps no state, so one call per
\* behaviour covers every call
Downsample(buffer, sourceRate, targetRate) ==
  /\ ~resampled.called
  /\ resampled' = DownsampleBuffer(buffer, sourceRate, targetRate)
  /\ last' = Last("downsampleBuffer", EmptyStr, NoEvent, EmptyStr, NoSent, FALSE, FALSE)
  /\ UNCHANGED <<netVars, storeVars, micVars, hbVars, vadVars, codec, playVars, ops>>

NextResample ==
  \E b \in Buffers, sr \in SourceRates, tr \in TargetRates : Downsample(b, sr, tr)

SpecResample == Init /\ [][NextResample]_vars

\* ------------------------------------- float32ToBase64 / base64ToFloat32
\* float32 samples as their 32-bit patterns read as two's complement integers:
\* 0.0, the smallest denormal, 1.0 (0x3F800000), -1.0 (0xBF800000) and
\* 0.1 (0x3DCCCCCD)
Words == {0, 1, 1065353216, 0 - 1082130432, 1036831949}

\* the Float32Arrays handed to float32ToBase64: arrays that span their buffer
Pcm == UNION {[1..n -> Words] : n \in 0..MaxPcmLen}

\* the four bytes of a float32 in the byte order of typed arrays (little endian)
BytesOfWord(w) ==
  <<w % 256, (w \div 256) % 256, (w \div 65536) % 256, (w \div 16777216) % 256>>

RECURSIVE BytesOf(_)
\* new Uint8Array(buffer.buffer)
BytesOf(pcm) == IF pcm = <<>> THEN <<>> ELSE BytesOfWord(Head(pcm)) \o BytesOf(Tail(pcm))

\* '=' in a base64 string; the other characters are their values 0..63
PadChar == 64

RECURSIVE Btoa(_)
\* btoa(binary): three bytes to four characters, '=' padding at the end
Btoa(bytes) ==
  IF bytes = <<>> THEN <<>>
  ELSE IF Len(bytes) = 1
    THEN <<bytes[1] \div 4, (bytes[1] % 4) * 16, PadChar, PadChar>>
  ELSE IF Len(bytes) = 2
    THEN <<bytes[1] \div 4, (bytes[1] % 4) * 16 + bytes[2] \div 16,
           (bytes[2] % 16) * 4, PadChar>>
  ELSE <<bytes[1] \div 4, (bytes[1] % 4) * 16 + bytes[2] \div 16,
         (bytes[2] % 16) * 4 + bytes[3] \div 64, bytes[3] % 64>>
       \o Btoa(SubSeq(bytes, 4, Len(bytes)))

ChunkSize == 8192

RECURSIVE BinaryOf(_)
\* binary += String.fromCharCode(...chunk) for each chunk of ChunkSize bytes
BinaryOf(bytes) ==
  IF Len(bytes) <= ChunkSize THEN bytes
  ELSE SubSeq(bytes, 1, ChunkSize) \o BinaryOf(SubSeq(bytes, ChunkSize + 1, Len(bytes)))

\* float32ToBase64(buffer)
Float32ToBase64(pcm) == Btoa(BinaryOf(BytesOf(pcm)))

\* atob strips the '=' at the end of a string whose length is a multiple of 4
Unpadded(chars) ==
  IF Len(chars) % 4 = 0 /\ Len(chars) >= 2 /\ chars[Len(chars)] = PadChar
  THEN IF chars[Len(chars) - 1] = PadChar THEN SubSeq(chars, 1, Len(chars) - 2)
       ELSE SubSeq(chars, 1, Len(chars) - 1)
  ELSE chars

\* atob throws InvalidCharacterError
AtobThrows(chars) ==
  LET data == Unpadded(chars)
  IN Len(data) % 4 = 1 \/ \E i \in 1..Len(data) : data[i] = PadChar

RECURSIVE AtobBytes(_)
\* the bytes of four, three or two characters, the spare bits discarded
AtobBytes(data) ==
  IF Len(data) < 2 THEN <<>>
  ELSE IF Len(data) = 2 THEN <<data[1] * 4 + data[2] \div 16>>
  ELSE IF Len(data) = 3
    THEN <<data[1] * 4 + data[2] \div 16, (data[2] % 16) * 16 + data[3] \div 4>>
  ELSE <<data[1] * 4 + data[2] \div 16, (data[2] % 16) * 16 + data[3] \div 4,
         (data[3] % 4) * 64 + data[4]>>
       \o AtobBytes(SubSeq(data, 5, Len(data)))

\* the most significant byte of a 32-bit pattern, as a signed number
SignedByte(b) == IF b >= 128 THEN b - 256 ELSE b

\* a float32 read from four bytes most significant byte first
WordOfBytes_BigEndian(bytes, k) ==
  SignedByte(bytes[k]) * 16777216 + bytes[k + 1] * 65536 + bytes[k + 2] * 256 + bytes[k + 3]

\* the float32 at bytes k .. k+3 of the buffer
WordOfBytes(bytes, k) ==
  bytes[k] + bytes[k + 1] * 256 + bytes[k + 2] * 65536 + SignedByte(bytes[k + 3]) * 16777216

\* base64ToFloat32(base64): whether it threw, and the samples returned
Base64ToFloat32(chars) ==
  IF AtobThrows(chars) THEN [threw |-> TRUE, samples |-> <<>>]
  ELSE LET bytes == AtobBytes(Unpadded(chars))
       IN IF ~WholeSamples(Len(bytes)) THEN [threw |-> TRUE, samples |-> <<>>]
          ELSE [threw |-> FALSE,
                samples |-> [i \in 1..(Len(bytes) \div 4) |-> WordOfBytes(bytes, 4 * i - 3)]]

\* float32ToBase64(data) as toggleMic calls it on a captured frame
Encode(pcm) ==
  /\ codec.step = "none"
  /\ codec' = [codec EXCEPT !.pcm = pcm, !.base64 = Float32ToBase64(pcm), !.step = "encoded"]
  /\ last' = Last("float32ToBase64", EmptyStr, NoEvent, EmptyStr, NoSent, FALSE, FALSE)
  /\ UNCHANGED <<netVars, storeVars, micVars, hbVars, vadVars, resampled, playVars, ops>>

\* base64ToFloat32(payload.data) as handleIncomingEvent calls it on the payload
Decode ==
  /\ codec.step = "encoded"
  /\ LET r == Base64ToFloat32(codec.base64)
     IN codec' = [codec EXCEPT !.decoded = r.samples, !.threw = r.threw, !.step = "decoded"]
  /\ last' = Last("base64ToFloat32", EmptyStr, NoEvent, EmptyStr, NoSent, FALSE, FALSE)
  /\ UNCHANGED <<netVars, storeVars, micVars, hbVars, vadVars, resampled, playVars, ops>>

NextCodec ==
  \/ \E pcm \in Pcm : Encode(pcm)
  \/ Decode

SpecCodec == Init /\ [][NextCodec]_vars

\* two peers leaving and joining again, and their heartbeat timers
NextHeartbeat ==
  \/ \E p \in Pair : Initialize(p)
  \/ \E p \in Pair : InitializeFail(p)
  \/ \E p \in Pair : LeaveRoom(p)
  \/ \E p, q \in Pair : PeerJoin(p, q)
  \/ \E p, q \in Pair : PeerLeave(p, q)
  \/ \E p \in Pair : Heartbeat(p)
  \/ \E p, q \in Pair : Receive(q, p)

SpecHeartbeat == Init /\ [][NextHeartbeat]_vars

\* presence, with joins that fail
NextJoin ==
  \/ \E p \in PeerIds : FirstInitialize(p)
  \/ \E p \in PeerIds : JoinFails(p)
  \/ \E p \in PeerIds : LeaveRoom(p)
  \/ \E p, q \in PeerIds : PeerJoin(p, q)
  \/ \E p, q \in PeerIds : PeerLeave(p, q)

SpecJoin == Init /\ [][NextJoin]_vars

\* the capture side of AudioService, called in any order at two peers
NextCapture ==
  \/ \E p \in Pair : StartCapture(p)
  \/ \E p \in Pair : GetUserMediaOk(p)
  \/ \E p \in Pair : GetUserMediaFail(p)
  \/ \E p \in Pair : StopCapture(p)
  \/ \E p \in Pair, f \in VadFrames : VadFrame(p, f)

SpecCapture == Init /\ [][NextCapture]_vars

\* one peer's microphone and its voice activity detector
NextVad ==
  \/ FirstInitialize(A)
  \/ MicButton(A)
  \/ StartCaptureOk(A)
  \/ \E d \in VadClockSteps : VadClock(A, d)
  \/ \E f \in VadFrames : VadFrame(A, f)

SpecVad == Init /\ [][NextVad]_vars

\* ==================================================================== claims
\* "a" < "ab" < "b": the smallest id of a non-empty set of the three peer ids
Smallest(S) == IF A \in S THEN A ELSE IF AB \in S THEN AB ELSE B

ElectionOps == {"initialize", "onPeerJoin", "onPeerLeave"}

InRoom == {p \in PeerIds : room[p]}

\* C1: in a mesh exchanging RequestToken / GrantToken / ReleaseToken, two
\* distinct peers never both have their local speakerId equal to their own id.
C1_NoTwoFloorHolders ==
  \A p, q \in PeerIds : p # q => ~(speakerId[p] = p /\ speakerId[q] = q)

\* C2: after every RequestToken, GrantToken, ReleaseToken and peer-leave event
\* applied to a peer's RoomState, speakerId is null or one peer id.
C2_SpeakerNullOrOnePeer == \A p \in PeerIds : speakerId[p] \in PeerIds \cup {NULL}

\* a GrantToken without target has been applied while a peer held the floor
W_C2 ==
  /\ last.op = "handleIncomingEvent"
  /\ last.ev.signal = "GRANT_TOKEN"
  /\ last.ev.target = UNDEF
  /\ last.before \in PeerIds
  /\ speakerId[last.peer] = NULL

\* C3: every election (after the local join, a peer-join or a peer-leave)
\* selects the lexicographically smallest id of the known set, whatever the
\* order in which the ids were learnt.
C3_ElectsSmallest ==
  last.op \in ElectionOps => hostId[last.peer] = Smallest(SeqToSet(netPeers[last.peer]))

\* the peer "b" learnt "ab" and then "a", and elected "a"
W_C3 ==
  /\ last.op = "onPeerJoin"
  /\ last.peer = B
  /\ netPeers[B] = <<B, AB, A>>
  /\ hostId[B] = A

\* C4: from the completion of its join on, also after leaveRoom and a
\* re-join, a peer's hostId is the smallest key of its RoomState.peers.
C4_HostSmallestOfRoomPeers ==
  \A p \in PeerIds : isInitialized[p] => hostId[p] = Smallest(DOMAIN peersMap[p])

\* C5: a peer that is not host per its own hostId emits no GrantToken, and on
\* receiving RequestToken it sends nothing and leaves its speakerId unchanged.
C5_OnlyHostGrants ==
  /\ \A x \in last.sent : x.m.signal = "GRANT_TOKEN" => hostId[last.peer] = last.peer
  /\ (last.op = "handleIncomingEvent" /\ last.ev.signal = "REQUEST_TOKEN"
        /\ hostId[last.peer] # last.peer)
     => (last.sent = {} /\ speakerId[last.peer] = last.before)

\* a peer that is not host has handled a RequestToken
W_C5 ==
  /\ last.op = "handleIncomingEvent"
  /\ last.ev.signal = "REQUEST_TOKEN"
  /\ hostId[last.peer] # last.peer

\* C6: a peer-leave of the current speaker sets speakerId to null in the same
\* step; a peer-leave of any other peer leaves speakerId unchanged.
C6_LeaveOfSpeakerClears ==
  last.op = "onPeerLeave" =>
    speakerId[last.peer] = (IF last.before = last.from THEN NULL ELSE last.before)

\* the speaker left, and the floor is free, with no ReleaseToken in flight
W_C6 ==
  /\ last.op = "onPeerLeave"
  /\ last.before = last.from
  /\ speakerId[last.peer] = NULL
  /\ \A p, q \in PeerIds : \A i \in 1..Len(chan[p][q]) : chan[p][q][i].signal # "RELEASE_TOKEN"

\* C7: an AudioChunk is broadcast, and the bridge listener called, for a
\* captured frame only if speakerId is the peer's own id when the frame is
\* emitted.
C7_AudioOnlyWhileHoldingFloor ==
  /\ \A x \in last.sent : x.m.type = "AUDIO_CHUNK" =>
        last.op = "captureFrame" /\ last.before = last.peer
  /\ (last.op = "captureFrame" /\ last.before # last.peer)
     => (last.sent = {} /\ ~last.pushed)

\* a frame was captured by the floor holder, broadcast and pushed to the listener
W_C7 ==
  /\ last.op = "captureFrame"
  /\ last.before = last.peer
  /\ last.pushed
  /\ \E x \in last.sent : x.m.type = "AUDIO_CHUNK" /\ x.kind = "broadcast"

C8_Agreement ==
  \A p, q \in InRoom :
    SeqToSet(netPeers[p]) = SeqToSet(netPeers[q]) =>
      hostId[p] = Smallest(SeqToSet(netPeers[p])) /\ hostId[q] = hostId[p]

\* C8: peers that have been notified of the same set of ids hold the same
\* hostId, the smallest id of the set, and hostId changes only when a presence
\* notification or the local join is handled.
C8_HostsConverge ==
  /\ []C8_Agreement
  /\ [][hostId' # hostId => last'.op \in ElectionOps]_vars

\* the three peers know each other and no notification is pending
W_C8 ==
  /\ InRoom = PeerIds
  /\ \A p \in PeerIds : SeqToSet(netPeers[p]) = PeerIds /\ hostId[p] = A
  /\ \A p, q \in PeerIds : p # q => link[p][q] = epoch[q]
  /\ netPeers[A] # SortIds(netPeers[A]) \/ netPeers[B] # netPeers[AB]

\* C9: every inbound Transcription or Translation event appends one entry with
\* its sender and timestamp at the end of the transcript log.
C9_TextEventsAppend ==
  [][(last'.op = "handleIncomingEvent" /\ last'.ev.type \in {"TRANSCRIPTION", "TRANSLATION"})
       => transcripts'[last'.peer] =
            Append(transcripts[last'.peer],
                   [senderId |-> last'.from, timestamp |-> last'.ev.ts])]_vars

\* C10: a frame is never scheduled before the end of the previous frame, and
\* after an underrun it is scheduled at now + jitterLatency or later.
C10_ScheduledFramesNeverOverlap ==
  \A p \in PeerIds :
    /\ lastStart[p].n >= 2 =>
         lastStart[p].start >= lastStart[p].prevStart + lastStart[p].prevDur
    /\ (lastStart[p].n >= 1 /\ lastStart[p].underrun) =>
         lastStart[p].start >= lastStart[p].now + lastStart[p].jl

\* a second frame scheduled after an underrun with a positive latency
W_C10 ==
  /\ lastStart[A].n >= 2
  /\ lastStart[A].underrun
  /\ lastStart[A].jl > 0
  /\ lastStart[A].start > lastStart[A].prevStart + lastStart[A].prevDur

\* C11: the notifications of the voice activity detector alternate true, false,
\* true, ... starting with true, and a frame emits one notification exactly
\* when it changes isSpeaking (one per transition, none otherwise).
C11_VadNotifiesOnEdges ==
  /\ [](\A p \in PeerIds : \A i \in 1..Len(vadLog[p]) : vadLog[p][i] = (i % 2 = 1))
  /\ [][\A p \in PeerIds :
          Len(vadLog'[p]) - Len(vadLog[p]) =
            (IF vad'[p].isSpeaking # vad[p].isSpeaking THEN 1 ELSE 0)]_vars

\* loud frames, then silence past the hangover window: one true, then one false
W_C11 ==
  /\ last.op = "captureFrame"
  /\ vadLog[A] = <<TRUE, FALSE>>
  /\ vadNow[A] - vad[A].lastActivityTime > VAD_HANGOVER_TIME
  /\ vad[A].lastActivityTime > 0

\* C12: downsampleBuffer with a target rate above the source rate throws and
\* returns no buffer; with equal rates it returns its input unchanged.
C12_UpsamplingThrows ==
  resampled.called =>
    /\ resampled.targetRate > resampled.sourceRate =>
          (resampled.threw /\ ~resampled.returned /\ resampled.out = <<>>)
    /\ resampled.targetRate = resampled.sourceRate =>
          (~resampled.threw /\ resampled.returned /\ resampled.den = 1
             /\ resampled.out = resampled.buffer)

\* a non-empty buffer was given with 16 kHz source and 24 kHz target
W_C12 ==
  /\ resampled.called
  /\ resampled.threw
  /\ resampled.sourceRate = INPUT_SAMPLE_RATE
  /\ resampled.targetRate = BotSampleRate
  /\ Len(resampled.buffer) = 3

\* the last call of downsampleBuffer went from a higher to a lower rate with a
\* buffer of one value
ConstantDownsample ==
  /\ resampled.called
  /\ resampled.sourceRate > resampled.targetRate
  /\ \A i \in 1..Len(resampled.buffer) : resampled.buffer[i] = resampled.buffer[1]

\* C13: downsampling a buffer whose samples all have the value c gives an
\* output whose samples all have the value c, the last ones included.
C13_ConstantPreserved ==
  ConstantDownsample =>
    /\ resampled.returned
    /\ \A i \in 1..Len(resampled.out) :
          resampled.out[i] = resampled.buffer[1] * resampled.den

\* 22.05 kHz to 16 kHz with five samples: the last output sample is computed
\* between the last input sample and the end of the buffer
W_C13 ==
  /\ ConstantDownsample
  /\ resampled.sourceRate = 22050
  /\ resampled.buffer = <<3, 3, 3, 3, 3>>
  /\ Len(resampled.out) = 4
  /\ (3 * resampled.sourceRate) % resampled.targetRate # 0
  /\ ((3 * resampled.sourceRate) \div resampled.targetRate) + 1 = Len(resampled.buffer)

\* C14: decoding with base64ToFloat32 what float32ToBase64 encoded gives a
\* sequence of the same length with the same samples.
C14_Base64RoundTrip ==
  codec.step = "decoded" =>
    /\ ~codec.threw
    /\ Len(codec.decoded) = Len(codec.pcm)
    /\ codec.decoded = codec.pcm

\* two samples, eight bytes: the base64 string ends with one '='
W_C14 ==
  /\ codec.step = "decoded"
  /\ codec.pcm = <<1065353216, 1036831949>>
  /\ Len(codec.base64) = 12
  /\ codec.base64[12] = PadChar
  /\ codec.base64[11] # PadChar

\* C15: a peer that is not in a room (leaveRoom has returned, or it never
\* joined) has no heartbeat timer, null room handle and send action, and knows
\* only itself; no heartbeat is broadcast outside a room; and a peer never has
\* more than one heartbeat timer.
C15_LeaveStopsHeartbeat ==
  /\ \A p \in PeerIds :
        /\ timers[p] <= 1
        /\ ~room[p] => (~heartbeatInterval[p] /\ timers[p] = 0 /\ netPeers[p] = <<p>>)
  /\ last.op = "leaveRoom" => ~room[last.peer]
  /\ last.op = "heartbeat" => (room[last.peer] /\ timers[last.peer] = 1)

\* a peer left while it knew the other peer, joined again, and its one timer fired
W_C15 ==
  /\ last.op = "heartbeat"
  /\ epoch[last.peer] = 2
  /\ timers[last.peer] = 1
  /\ \E x \in last.sent : x.m.signal = "HEARTBEAT"

\* C17: after a join that failed, the peer knows no peer but itself and its
\* hostId is its own id.
C17_FailedJoinElectsSelf ==
  last.op = "initializeFail" =>
    /\ netPeers[last.peer] = <<last.peer>>
    /\ DOMAIN peersMap[last.peer] \subseteq {last.peer}
    /\ hostId[last.peer] = last.peer

\* C16: when stopCapture has returned, the stream and the script processor
\* references are null, and onAudioData is not invoked again before a later
\* call of startCapture.
C16_StopHaltsFrames ==
  /\ last.op = "stopCapture" => (~mediaStream[last.peer] /\ ~procRef[last.peer])
  /\ last.op = "captureFrame" => ~capStopped[last.peer]

HandlerOps == {"handleIncomingEvent", "handleIncomingEvent throws"}

\* a well-formed event that no case of handleIncomingEvent is written for
Ignorable(ev) ==
  /\ ev.payload
  /\ \/ ev.type = "CONTROL_SIGNAL" /\ ev.signal \notin FloorSignals
     \/ ev.type \in {"STATE_UPDATE", "UNKNOWN"}

\* C19: receiving a control event whose signal is not RequestToken, GrantToken
\* or ReleaseToken (HEARTBEAT, MutePeer, KickPeer, unknown), or an event of
\* type StateUpdate or of unknown type, returns normally, leaves RoomState and
\* the transcript log unchanged and sends nothing.
C19_UnknownEventsIgnored ==
  [][(last'.op \in HandlerOps /\ Ignorable(last'.ev)) =>
       /\ last'.op = "handleIncomingEvent"
       /\ last'.sent = {}
       /\ speakerId' = speakerId
       /\ hostId' = hostId
       /\ peersMap' = peersMap
       /\ transcripts' = transcripts]_vars

\* a heartbeat arrived at a peer whose transcript log is not empty
W_C19 ==
  /\ last.op = "handleIncomingEvent"
  /\ last.ev.signal = "HEARTBEAT"
  /\ transcripts[last.peer] # <<>>

\* a control event without payload, or an audio chunk whose data is absent or
\* no whole number of float32 samples
Malformed(ev) ==
  \/ ev.type = "CONTROL_SIGNAL" /\ ~ev.payload
  \/ ev.type = "AUDIO_CHUNK" /\ (~ev.payload \/ ev.pad # 0)

\* C20: handleIncomingEvent given a malformed event returns normally and
\* leaves the state unchanged.
C20_MalformedEventsDropped ==
  [][(last'.op \in HandlerOps /\ Malformed(last'.ev)) =>
       /\ last'.op = "handleIncomingEvent"
       /\ storeVars' = storeVars
       /\ playVars' = playVars]_vars

C22_HostBridgesAudio ==
  LET p == last.peer
      inbound == /\ last.op = "handleIncomingEvent"
                 /\ last.ev.type = "AUDIO_CHUNK"
                 /\ last.from \in PeerIds \ {p}
      captured == last.op = "captureFrame" /\ HoldsFloor(p)
  IN (inbound \/ captured) =>
       /\ (hostId[p] = p /\ isAiRunning[p]) => last.bridged
       /\ hostId[p] # p => ~last.bridged

\* no event is in flight and presence has settled: the peers in the room are
\* connected to each other's current session and to no peer that has left
Quiescent ==
  \A p, q \in PeerIds :
    /\ chan[p][q] = <<>>
    /\ (p \in InRoom /\ q \in InRoom /\ p # q) => link[p][q] = epoch[q]
    /\ (p \in InRoom /\ q \notin InRoom) => link[p][q] = 0

\* C23: once every event in flight is delivered and presence has settled, all
\* peers in the room hold the same speakerId, a peer that joined while a
\* speaker held the floor included
C23_SpeakerConverges ==
  Quiescent => \A p, q \in InRoom : speakerId[p] = speakerId[q]

\* C24: a peer that is host by its own hostId and handles a RequestToken sets
\* its speakerId to the requester and makes exactly one send, a broadcast of
\* a GrantToken whose target is that requester
C24_HostGrantsRequester ==
  (/\ last.op = "handleIncomingEvent"
   /\ last.ev.signal = "REQUEST_TOKEN"
   /\ hostId[last.peer] = last.peer) =>
     /\ speakerId[last.peer] = last.from
     /\ \E x \in last.sent :
          /\ last.sent = {x}
          /\ x.kind = "broadcast"
          /\ x.m.type = "CONTROL_SIGNAL"
          /\ x.m.signal = "GRANT_TOKEN"
          /\ x.m.target = last.from

\* the host has served a request while another peer was its speaker
W_C24 ==
  /\ last.op = "handleIncomingEvent"
  /\ last.ev.signal = "REQUEST_TOKEN"
  /\ hostId[last.peer] = last.peer
  /\ last.before \in PeerIds \ {last.from}
  /\ speakerId[last.peer] = last.from

\* C25: when the host requests the floor itself, it sets its speakerId to its
\* own id, whoever was speaker before, and makes exactly one send: a
\* broadcast GrantToken whose target is itself, and no unicast
C25_HostSelfGrants ==
  (/\ last.op = "requestTalkingStick"
   /\ hostId[last.peer] = last.peer
   /\ room[last.peer]) =>
     /\ speakerId[last.peer] = last.peer
     /\ \A x \in last.sent : x.kind # "unicast"
     /\ \E x \in last.sent :
          /\ last.sent = {x}
          /\ x.kind = "broadcast"
          /\ x.m.type = "CONTROL_SIGNAL"
          /\ x.m.signal = "GRANT_TOKEN"
          /\ x.m.target = last.peer

\* the host took the floor while another peer was its speaker
W_C25 ==
  /\ last.op = "requestTalkingStick"
  /\ hostId[last.peer] = last.peer
  /\ room[last.peer]
  /\ last.before \in PeerIds \ {last.peer}
  /\ speakerId[last.peer] = last.peer

\* a guest in the room has asked for the floor: one unicast RequestToken that
\* names the guest, addressed to its hostId, and speakerId as it was
GuestRequestSent ==
  (/\ last.op = "requestTalkingStick"
   /\ hostId[last.peer] # last.peer
   /\ room[last.peer]) =>
     /\ speakerId[last.peer] = last.before
     /\ \E x \in last.sent :
          /\ last.sent = {x}
          /\ x.kind = "unicast"
          /\ x.to = hostId[last.peer]
          /\ x.m.type = "CONTROL_SIGNAL"
          /\ x.m.signal = "REQUEST_TOKEN"
          /\ x.m.target = last.peer

\* p's speakerId becomes p only when p handles a GrantToken that names p, or
\* p requests the floor as host
OwnFloorOnlyByGrant ==
  \A p \in PeerIds :
    (speakerId[p] # p /\ speakerId'[p] = p) =>
      /\ last'.peer = p
      /\ \/ /\ last'.op = "handleIncomingEvent"
            /\ last'.ev.signal = "GRANT_TOKEN"
            /\ last'.ev.target = p
         \/ last'.op = "requestTalkingStick" /\ hostId[p] = p

\* a RequestToken enters a channel only in a step of requestTalkingStick
NoRetry ==
  \A p, q \in PeerIds :
    (/\ Len(chan'[p][q]) > Len(chan[p][q])
     /\ chan'[p][q][Len(chan'[p][q])].signal = "REQUEST_TOKEN") =>
       last'.op = "requestTalkingStick" /\ last'.peer = p

\* C26: a guest that requests the floor sends exactly one unicast RequestToken
\* with its own id as target to its hostId, broadcasts nothing and keeps its
\* speakerId; its speakerId becomes its own id only through a GrantToken, and
\* no request is sent again by itself
C26_GuestRequestsHost ==
  /\ []GuestRequestSent
  /\ [][OwnFloorOnlyByGrant /\ NoRetry]_vars

\* a guest connected to its host has asked for the floor while another peer
\* was its speaker, and the request is in flight
W_C26 ==
  /\ last.op = "requestTalkingStick"
  /\ room[last.peer]
  /\ hostId[last.peer] \in PeerIds \ {last.peer}
  /\ chan[last.peer][hostId[last.peer]] # <<>>
  /\ speakerId[last.peer] \in PeerIds \ {last.peer}

\* C27: a peer that handles a GrantToken whose target is the peer p has
\* speakerId = p afterwards, whether it is the grantee, another guest or a
\* host, and whoever its speaker was before
C27_GrantSetsSpeaker ==
  (/\ last.op = "handleIncomingEvent"
   /\ last.ev.signal = "GRANT_TOKEN"
   /\ last.ev.target \in PeerIds) =>
     speakerId[last.peer] = last.ev.target

\* a host whose speaker was a third peer has handled a GrantToken that names
\* the host itself
W_C27 ==
  /\ last.op = "handleIncomingEvent"
  /\ last.ev.signal = "GRANT_TOKEN"
  /\ last.ev.target = last.peer
  /\ hostId[last.peer] = last.peer
  /\ last.before \in PeerIds \ {last.peer}
  /\ speakerId[last.peer] = last.peer

\* what releaseTalkingStick and the RELEASE_TOKEN case leave behind
ReleaseOutcome ==
  /\ (last.op = "releaseTalkingStick" /\ last.before = last.peer /\ room[last.peer]) =>
        /\ speakerId[last.peer] = NULL
        /\ \E x \in last.sent :
             /\ last.sent = {x}
             /\ x.kind = "broadcast"
             /\ x.m.type = "CONTROL_SIGNAL"
             /\ x.m.signal = "RELEASE_TOKEN"
  /\ (last.op = "releaseTalkingStick" /\ last.before # last.peer) =>
        speakerId[last.peer] = last.before /\ last.sent = {}
  /\ (last.op = "handleIncomingEvent" /\ last.ev.signal = "RELEASE_TOKEN") =>
        speakerId[last.peer] = NULL

\* a release by a peer that does not hold the floor leaves the store and the
\* transport as they were
IdleReleaseChangesNothing ==
  (last'.op = "releaseTalkingStick" /\ speakerId[last'.peer] # last'.peer) =>
    UNCHANGED <<netVars, storeVars>>

\* C28: the speaker that releases the floor sets its speakerId to null and
\* broadcasts one ReleaseToken; every peer that handles a ReleaseToken sets
\* its speakerId to null; a release by a peer whose speakerId is not its own
\* id sends nothing and changes nothing
C28_ReleaseClearsFloor ==
  /\ []ReleaseOutcome
  /\ [][IdleReleaseChangesNothing]_vars

\* a peer whose speaker was the releasing peer has handled its ReleaseToken
W_C28 ==
  /\ last.op = "handleIncomingEvent"
  /\ last.ev.signal = "RELEASE_TOKEN"
  /\ last.before = last.from
  /\ speakerId[last.peer] = NULL
  /\ speakerId[last.from] = NULL

\* a presence notification with its election keeps every speakerId, except
\* that onPeerLeave clears the speaker that left; it sends nothing
ElectionKeepsFloor ==
  (last'.op \in {"onPeerJoin", "onPeerLeave"}) =>
    LET p == last'.peer
    IN /\ \A x \in PeerIds \ {p} : speakerId'[x] = speakerId[x]
       /\ \/ speakerId'[p] = speakerId[p]
          \/ /\ last'.op = "onPeerLeave"
             /\ speakerId[p] = last'.from
             /\ speakerId'[p] = NULL
       /\ chan' = chan
       /\ last'.sent = {}
       /\ UNCHANGED <<isMicActive, transcripts>>

\* a GrantToken is sent only by a peer that is host at that moment, in its own
\* requestTalkingStick or while it handles a RequestToken
GrantsAnswerRequests ==
  (\E x \in last'.sent : x.m.signal = "GRANT_TOKEN") =>
    /\ hostId[last'.peer] = last'.peer
    /\ \/ last'.op = "requestTalkingStick"
       \/ last'.op = "handleIncomingEvent" /\ last'.ev.signal = "REQUEST_TOKEN"

\* C29: a host change after a join or a leave changes hostId and leaves the
\* current speakerId as it is (the departed speaker apart, which the leave
\* handler clears); the new host grants only for the requests it handles as
\* host
C29_HostChangeKeepsSpeaker == [][ElectionKeepsFloor /\ GrantsAnswerRequests]_vars

\* a peer that was host and held the floor has learnt of a smaller id: it is
\* no longer host and still its own speaker
W_C29 ==
  /\ last.op = "onPeerJoin"
  /\ last.from = A
  /\ hostId[last.peer] = A
  /\ last.before = last.peer
  /\ speakerId[last.peer] = last.peer

\* C30: the host serves each RequestToken as it handles it, without a queue:
\* its speakerId becomes the requester of that request, and one GrantToken
\* for that requester is put behind the grants sent before, on the way to
\* every peer the host reaches, so the grants keep the order of the requests
C30_RequestsServedInOrder ==
  [][(/\ last'.op = "handleIncomingEvent"
      /\ last'.ev.signal = "REQUEST_TOKEN"
      /\ hostId[last'.peer] = last'.peer) =>
       LET h == last'.peer
           grant == GrantEvent(h, last'.from)
       IN /\ speakerId'[h] = last'.from
          /\ last'.sent = Bcast(h, grant)
          /\ \A q \in PeerIds :
               chan'[h][q] = IF q \in Reachable(h) THEN Append(chan[h][q], grant)
                             ELSE chan[h][q]]_vars

\* the host has served the requests of two peers one after the other, and the
\* two grants are on their way to the first requester in that order
W_C30 ==
  /\ last.op = "handleIncomingEvent"
  /\ last.ev.signal = "REQUEST_TOKEN"
  /\ hostId[last.peer] = last.peer
  /\ last.before \in PeerIds \ {last.peer, last.from}
  /\ speakerId[last.peer] = last.from
  /\ Len(chan[last.peer][last.before]) = 2
  /\ chan[last.peer][last.before][1].target = last.before
  /\ chan[last.peer][last.before][2].target = last.from

\* the frame of a step exceeds the threshold: rms^2 > threshold^2
FrameAbove(f) == Len(f) > 0 /\ SumSq(f) > VAD_THRESHOLD * VAD_THRESHOLD * Len(f)

\* what a processed frame does to the detector
FrameOutcome ==
  (last'.op = "captureFrame") =>
    LET p == last'.peer
        f == last'.frame
        expired == vadNow[p] - vad[p].lastActivityTime > VAD_HANGOVER_TIME
    IN /\ FrameAbove(f) =>
            /\ vad'[p].isSpeaking
            /\ vad'[p].lastActivityTime = vadNow[p]
       /\ (~FrameAbove(f) /\ vad[p].isSpeaking /\ expired) =>
            /\ ~vad'[p].isSpeaking
            /\ vad'[p].lastActivityTime = vad[p].lastActivityTime
       /\ (~FrameAbove(f) /\ ~(vad[p].isSpeaking /\ expired)) =>
            vad'[p] = vad[p] /\ vadLog'[p] = vadLog[p]

\* isSpeaking changes only when a frame is processed
OnlyFramesSwitch ==
  \A p \in PeerIds :
    vad'[p].isSpeaking # vad[p].isSpeaking =>
      last'.op = "captureFrame" /\ last'.peer = p

\* C31: the detector is speaking after every frame whose rms exceeds the
\* threshold, and records the time of that frame; it stops speaking only on a
\* frame at or below the threshold processed more than VAD_HANGOVER_TIME after
\* the last frame above it; a frame at or below the threshold within the
\* window changes nothing and notifies nobody
C31_VadHangover == [][FrameOutcome /\ OnlyFramesSwitch]_vars

\* a quiet frame processed exactly VAD_HANGOVER_TIME after the last loud one
\* has left the detector speaking
W_C31 ==
  /\ last.op = "captureFrame"
  /\ ~FrameAbove(last.frame)
  /\ vad[last.peer].isSpeaking
  /\ vadNow[last.peer] - vad[last.peer].lastActivityTime = VAD_HANGOVER_TIME
  /\ vadLog[last.peer] = <<TRUE>>

\* C32: a downsampling call returns round(inputLength / r) samples, and its
\* sample i is in[floor(i*r)] * (1 - w) + in[ceil(i*r)] * w with
\* r = sourceRate / targetRate and w the fractional part of i*r, whenever both
\* neighbours lie in the buffer, samples of value 0 included (both sides are
\* multiplied by targetRate)
C32_LinearInterpolation ==
  (resampled.called /\ resampled.sourceRate > resampled.targetRate) =>
    LET in == resampled.buffer
        sr == resampled.sourceRate
        tr == resampled.targetRate
    IN /\ resampled.returned
       /\ resampled.den = tr
       /\ Len(resampled.out) = (2 * Len(in) * tr + sr) \div (2 * sr)
       /\ \A i \in 0..(Len(resampled.out) - 1) :
            LET lo == (i * sr) \div tr
                w == (i * sr) % tr
                hi == IF w = 0 THEN lo ELSE lo + 1
            IN hi < Len(in) =>
                 resampled.out[i + 1] = in[lo + 1] * (tr - w) + in[hi + 1] * w

\* C33: a call of playAudioQueue resets the cursor to now + jitterLatency if
\* it is behind the playback clock and leaves it otherwise; the frame starts
\* exactly at the cursor, the cursor advances by exactly
\* sampleCount / sampleRate of the frame, and the start is not before the clock
C33_PlaybackCursor ==
  [][(last'.op = "playAudioQueue") =>
       LET p == last'.peer
           now == currentTime[p]
           cursor == IF nextStartTime[p] < now THEN now + jitterLatency[p]
                     ELSE nextStartTime[p]
       IN /\ lastStart'[p].start = cursor
          /\ cursor >= now
          /\ (nextStartTime'[p] - cursor) * last'.ev.rate = last'.ev.len * TickRate
          /\ currentTime'[p] = now]_vars

\* a frame at the bot's rate was queued behind an earlier frame, without an
\* underrun, while the clock had advanced
W_C33 ==
  /\ last.op = "playAudioQueue"
  /\ last.ev.rate = BotSampleRate
  /\ lastStart[last.peer].n >= 2
  /\ ~lastStart[last.peer].underrun
  /\ lastStart[last.peer].now > 0
  /\ lastStart[last.peer].start > lastStart[last.peer].now

\* C34: after its join, the record of the local peer in roomState.peers has
\* role HOST exactly when the local id equals hostId, so that the App's isHost
\* holds exactly at the elected host
C34_RoleFollowsElection ==
  \A p \in PeerIds :
    (isInitialized[p] /\ p \in DOMAIN peersMap[p]) =>
      /\ (peersMap[p][p] = "HOST") <=> (hostId[p] = p)
      /\ IsHost(p) <=> (hostId[p] = p)

\* C35: a peer whose speakerId is its own id has its microphone active
C35_SpeakerHasMicOn ==
  \A p \in PeerIds : speakerId[p] = p => isMicActive[p]

\* C36: at every peer that has joined, speakerId is null, the peer's own id,
\* or the id of a peer present in its roomState.peers
C36_SpeakerIsPresent ==
  \A p \in PeerIds :
    isInitialized[p] =>
      speakerId[p] \in {NULL, p} \cup DOMAIN peersMap[p]

\* C37: an event the translation bridge produced is handled at every peer
\* with the bot identifier as its sender, and the transcript entry a peer
\* appends for it carries the bot identifier
C37_BotEventsKeepBotSender ==
  (last.op = "handleIncomingEvent" /\ last.ev.from = BotId) =>
    /\ last.from = BotId
    /\ last.ev.type = "TRANSCRIPTION" =>
         /\ transcripts[last.peer] # <<>>
         /\ transcripts[last.peer][Len(transcripts[last.peer])].senderId = BotId

\* C38: whatever the interleaving of toggleMic invocations, at most one
\* capture is running, and when no invocation is pending and isMicActive is
\* false, no capture is running and no frame was just emitted
C38_OneCaptureAtMost ==
  \A p \in PeerIds :
    /\ captures[p] <= 1
    /\ (micAwait[p] = 0 /\ ~isMicActive[p]) =>
         /\ captures[p] = 0
         /\ ~(last.op = "captureFrame" /\ last.peer = p)

\* C39: handling a RequestToken, GrantToken or ReleaseToken changes at most
\* the speakerId of the peer that handles it: hostId, the peers map, the
\* transcript log and the microphone state are as before
C39_ControlChangesSpeakerOnly ==
  [][(/\ last'.op = "handleIncomingEvent"
      /\ last'.ev.type = "CONTROL_SIGNAL"
      /\ last'.ev.signal \in FloorSignals) =>
       /\ UNCHANGED <<hostId, peersMap, transcripts, isInitialized, isMicActive>>
       /\ \A x \in PeerIds \ {last'.peer} : speakerId'[x] = speakerId[x]]_vars

\* a peer that knows all three peers has handled a ReleaseToken that took
\* the floor from its speaker
W_C39 ==
  /\ last.op = "handleIncomingEvent"
  /\ last.ev.signal = "RELEASE_TOKEN"
  /\ DOMAIN peersMap[last.peer] = PeerIds
  /\ hostId[last.peer] = A
  /\ last.before \in PeerIds
  /\ speakerId[last.peer] = NULL

====
